---------------------------- MODULE Spec2Model ----------------------------
(***************************************************************************)
(* A state-machine model of the work-stealing executor of src/src/lib.rs:  *)
(* the shared State (global queue, searching_count, local-queue registry,  *)
(* notified flag, Sleepers, active-task slab), the Ticker sleep/wake       *)
(* protocol, the Runner search loop, the thread-local handoff slot and the *)
(* driver operations spawn / try_tick / tick / run / drop.                 *)
(*                                                                         *)
(* Threads 1..NRunners drive the executor with run(); the remaining        *)
(* threads are clients (spawn, try_tick, tick, waking and cancelling       *)
(* tasks, dropping the executor).  A Runnable is identified with the id of *)
(* its task: the external task primitive produces at most one Runnable per *)
(* task at a time.  Every critical section of the sleepers mutex is one    *)
(* atomic step; State::notify is two steps (the compare-exchange, then the *)
(* critical section), because the flag is written outside the mutex.       *)
(*                                                                         *)
(* The module taskqueue (GlobalQueue, LocalQueue) is not among the source  *)
(* files; its operations are modelled from sections 3 and 4.4 of the       *)
(* specification.                                                          *)
(***************************************************************************)
EXTENDS Integers, Sequences, FiniteSets

\* ---- bounds of the model -------------------------------------------------
\* Threads that may call run() (they are threads 1..NRunners).
NRunners == 2
\* Client threads (threads NRunners+1 .. NRunners+NClients).
NClients == 1
\* Number of spawn calls in a behaviour.
MaxTasks == 3
\* Number of spawn calls in the behaviours of SpecNotify and SpecDriver.
FewTasks == 2
\* Capacity of a local queue (a stand-in for the ring's power of two).
LocalCap == 2
\* The run loop yields every YieldEvery runnables (200 in the source).
YieldEvery == 2
\* A Runner steals from the global queue every TickPeriod ticks (64 in the source).
TickPeriod == 2
\* Number of back-to-back notify() calls examined by the idempotence law.
MaxK == 3

Runners == 1..NRunners
Thr == 1..(NRunners + NClients)
Task == 1..MaxTasks
\* The absent waker / runnable / slab entry.
None == 0
\* A runnable of a task that belongs to another executor.
Foreign == MaxTasks + 1

VARIABLES
    queue,            \* State.queue: the global FIFO of runnables
    searching_count,  \* State.searching_count
    local_queues,     \* State.local_queues: ids of the registered local queues
    notified,         \* State.notified
    sleepers,         \* State.sleepers: [count, wakers, free_ids]
    active,           \* State.active: slab index -> task whose waker it holds
    active_lock,      \* holder of the active-set mutex (None: free)
    sleeping,         \* Ticker.sleeping of the ticker of each thread
    local,            \* Runner.local of the runner of each thread
    ticks,            \* Runner.ticks (modulo TickPeriod)
    tls,              \* the TLS slot of each thread: [set, state, borrowed, pending]
    just_yielded,     \* the JUST_YIELDED cell of each thread
    iter,             \* position in `for _ in 0..200` of run_forever
    held,             \* the runnable a thread has taken and is about to run
    pc,               \* position of each thread
    mode,             \* "none", "run" (inside run()) or "tick" (inside tick())
    ret,              \* where a client operation returns to
    ns,               \* position inside State::notify: "none", "cas", "lock"
    woken,            \* the thread's block_on waker has been invoked
    task,             \* per task: [st, closed, polled, index]
    drained,          \* the last try_tick returned false and nothing was scheduled since
    dropped,          \* the executor has been dropped
    dreg,             \* the tasks registered when Drop for Executor began
    dwakes,           \* per task: wakers invoked by Drop for Executor
    flavor,           \* "Executor" or "LocalExecutor": whose spawn built the tasks
    panicked,         \* a thread has panicked
    since_poll,       \* runnables run by run_forever since the outer future was polled
    locklog           \* [on, nested]: when on, the lock acquisitions made so far by a
                      \* thread that held another lock: <<held, acquired, site>>

vars == <<queue, searching_count, local_queues, notified, sleepers, active,
          active_lock, sleeping, local, ticks, tls, just_yielded, iter, held,
          pc, mode, ret, ns, woken, task, drained, dropped, dreg, dwakes,
          flavor, panicked, since_poll, locklog>>

\* The program state as one record, so that a handler that calls several
\* functions is the composition of their models.
Cur ==
    [queue |-> queue, searching_count |-> searching_count,
     local_queues |-> local_queues, notified |-> notified,
     sleepers |-> sleepers, active |-> active, active_lock |-> active_lock,
     sleeping |-> sleeping, local |-> local, ticks |-> ticks, tls |-> tls,
     just_yielded |-> just_yielded, iter |-> iter, held |-> held, pc |-> pc,
     mode |-> mode, ret |-> ret, ns |-> ns, woken |-> woken, task |-> task,
     drained |-> drained, dropped |-> dropped, dreg |-> dreg,
     dwakes |-> dwakes, flavor |-> flavor, panicked |-> panicked,
     since_poll |-> since_poll, locklog |-> locklog]

Set(s) ==
    /\ queue' = s.queue
    /\ searching_count' = s.searching_count
    /\ local_queues' = s.local_queues
    /\ notified' = s.notified
    /\ sleepers' = s.sleepers
    /\ active' = s.active
    /\ active_lock' = s.active_lock
    /\ sleeping' = s.sleeping
    /\ local' = s.local
    /\ ticks' = s.ticks
    /\ tls' = s.tls
    /\ just_yielded' = s.just_yielded
    /\ iter' = s.iter
    /\ held' = s.held
    /\ pc' = s.pc
    /\ mode' = s.mode
    /\ ret' = s.ret
    /\ ns' = s.ns
    /\ woken' = s.woken
    /\ task' = s.task
    /\ drained' = s.drained
    /\ dropped' = s.dropped
    /\ dreg' = s.dreg
    /\ dwakes' = s.dwakes
    /\ flavor' = s.flavor
    /\ panicked' = s.panicked
    /\ since_poll' = s.since_poll
    /\ locklog' = s.locklog

\* ---- sequences -----------------------------------------------------------
Front(q) == SubSeq(q, 1, Len(q) - 1)
Last(q) == q[Len(q)]
RemoveAt(q, i) == SubSeq(q, 1, i - 1) \o SubSeq(q, i + 1, Len(q))
Min(a, b) == IF a < b THEN a ELSE b

\* ---- locks ---------------------------------------------------------------
\* Thread t acquires `lock` at `site`.  The active-set mutex is the only lock
\* held across calls (active_lock); the guards of the sleepers mutex and of
\* the registry lock are dropped inside the function that takes them.
lock_acquire(s, t, lock, site) ==
    IF s.locklog.on /\ s.active_lock = t
    THEN [s EXCEPT !.locklog.nested = @ \cup {<<"active", lock, site>>}]
    ELSE s

\* ---- Sleepers ------------------------------------------------------------
\* Sleepers::is_notified
is_notified(sl) == sl.count = 0 \/ sl.count > Len(sl.wakers)

Sleepers_insert_nocount(sl, w) ==
    LET id == IF Len(sl.free_ids) > 0 THEN Last(sl.free_ids) ELSE sl.count + 1
    IN  [sl |-> [count |-> sl.count,
                 wakers |-> Append(sl.wakers, <<id, w>>),
                 free_ids |-> IF Len(sl.free_ids) > 0 THEN Front(sl.free_ids)
                              ELSE sl.free_ids],
         ret |-> id]

Sleepers_insert_fresh(sl, w) ==
    LET id == sl.count + 1
    IN  [sl |-> [count |-> sl.count + 1,
                 wakers |-> Append(sl.wakers, <<id, w>>),
                 free_ids |-> IF Len(sl.free_ids) > 0 THEN Front(sl.free_ids)
                              ELSE sl.free_ids],
         ret |-> id]

\* Sleepers::insert: returns the new table and the allocated id.
Sleepers_insert(sl, w) ==
    LET id == IF Len(sl.free_ids) > 0 THEN Last(sl.free_ids) ELSE sl.count + 1
    IN  [sl |-> [count |-> sl.count + 1,
                 wakers |-> Append(sl.wakers, <<id, w>>),
                 free_ids |-> IF Len(sl.free_ids) > 0 THEN Front(sl.free_ids)
                              ELSE sl.free_ids],
         ret |-> id]

\* Sleepers::update: ret is TRUE iff the ticker was notified.
Sleepers_update(sl, id, w) ==
    IF \E i \in 1..Len(sl.wakers) : sl.wakers[i][1] = id
    THEN LET i == CHOOSE j \in 1..Len(sl.wakers) :
                      /\ sl.wakers[j][1] = id
                      /\ \A h \in 1..(j - 1) : sl.wakers[h][1] # id
         IN  [sl |-> [sl EXCEPT !.wakers[i] = <<id, w>>], ret |-> FALSE]
    ELSE [sl |-> [sl EXCEPT !.wakers = Append(@, <<id, w>>)], ret |-> TRUE]

\* Sleepers::remove: ret is the removed waker, or None.
Sleepers_remove(sl, id) ==
    LET base == [sl EXCEPT !.count = @ - 1, !.free_ids = Append(@, id)]
        hits == {i \in 1..Len(sl.wakers) : sl.wakers[i][1] = id}
    IN  IF hits = {} THEN [sl |-> base, ret |-> None]
        ELSE LET i == CHOOSE j \in hits : \A h \in hits : h <= j
             IN  [sl |-> [base EXCEPT !.wakers = RemoveAt(@, i)],
                  ret |-> sl.wakers[i][2]]

Sleepers_notify_inverted(sl) ==
    IF Len(sl.wakers) # sl.count /\ Len(sl.wakers) > 0
    THEN [sl |-> [sl EXCEPT !.wakers = Front(@)], ret |-> Last(sl.wakers)[2]]
    ELSE [sl |-> sl, ret |-> None]

Sleepers_notify_any(sl) ==
    IF Len(sl.wakers) > 0
    THEN [sl |-> [sl EXCEPT !.wakers = Front(@)], ret |-> Last(sl.wakers)[2]]
    ELSE [sl |-> sl, ret |-> None]

\* Sleepers::notify: ret is the popped waker, or None.
Sleepers_notify(sl) ==
    IF Len(sl.wakers) = sl.count /\ Len(sl.wakers) > 0
    THEN [sl |-> [sl EXCEPT !.wakers = Front(@)], ret |-> Last(sl.wakers)[2]]
    ELSE [sl |-> sl, ret |-> None]

\* Waker::wake of a thread's block_on waker (None: no waker).
Waker_wake(s, w) == IF w = None THEN s ELSE [s EXCEPT !.woken[w] = TRUE]


\* ---- Ticker --------------------------------------------------------------
\* Ticker::sleep of thread t's ticker, polled with t's waker.
\* ret is FALSE iff the ticker was already sleeping and unnotified.
Ticker_sleep(s0, t) ==
    LET s == lock_acquire(s0, t, "sleepers", "Ticker::sleep")
    IN  IF s.sleeping[t] = 0
        THEN LET r == Sleepers_insert(s.sleepers, t)
             IN  [s |-> [s EXCEPT !.sleepers = r.sl, !.sleeping[t] = r.ret,
                                  !.notified = is_notified(r.sl)],
                  ret |-> TRUE]
        ELSE LET r == Sleepers_update(s.sleepers, s.sleeping[t], t)
             IN  IF ~r.ret
                 THEN [s |-> [s EXCEPT !.sleepers = r.sl], ret |-> FALSE]
                 ELSE [s |-> [s EXCEPT !.sleepers = r.sl,
                                       !.notified = is_notified(r.sl)],
                       ret |-> TRUE]

Ticker_wake_nomirror(s, tk) ==
    IF s.sleeping[tk] # 0
    THEN LET r == Sleepers_remove(s.sleepers, s.sleeping[tk])
         IN  [s |-> [s EXCEPT !.sleeping[tk] = 0, !.sleepers = r.sl],
              ret |-> r.ret]
    ELSE [s |-> s, ret |-> None]

\* Ticker::wake of thread tk's ticker: ret is the removed waker, or None.
Ticker_wake(s, tk) ==
    IF s.sleeping[tk] # 0
    THEN LET r == Sleepers_remove(s.sleepers, s.sleeping[tk])
             s1 == lock_acquire(s, tk, "sleepers", "Ticker::wake")
         IN  [s |-> [s1 EXCEPT !.sleeping[tk] = 0, !.sleepers = r.sl,
                               !.notified = is_notified(r.sl)],
              ret |-> r.ret]
    ELSE [s |-> s, ret |-> None]

\* The call self.state.notify() by thread t: t enters State::notify.
call_notify(s, t) == [s EXCEPT !.ns[t] = "cas"]

Ticker_drop_absorb(s, t) ==
    IF s.sleeping[t] # 0
    THEN LET r == Sleepers_remove(s.sleepers, s.sleeping[t])
         IN  [s EXCEPT !.sleeping[t] = 0, !.sleepers = r.sl,
                       !.notified = is_notified(r.sl)]
    ELSE s

\* Drop for Ticker, run by thread t.
Ticker_drop(s, t) ==
    IF s.sleeping[t] # 0
    THEN LET r == Sleepers_remove(s.sleepers, s.sleeping[t])
             s1 == [lock_acquire(s, t, "sleepers", "Ticker::drop")
                       EXCEPT !.sleeping[t] = 0, !.sleepers = r.sl,
                              !.notified = is_notified(r.sl)]
         IN  IF r.ret = None THEN call_notify(s1, t) ELSE s1
    ELSE s

\* ---- State::notify -------------------------------------------------------
\* The compare_exchange(false, true) of State::notify.
State_notify_cas(s, t) ==
    IF ~s.notified
    THEN [s EXCEPT !.notified = TRUE, !.ns[t] = "lock"]
    ELSE [s EXCEPT !.ns[t] = "none"]

State_notify_lock_herd(s, t) ==
    LET r == Sleepers_notify_any(s.sleepers)
    IN  Waker_wake([s EXCEPT !.sleepers = r.sl, !.notified = FALSE,
                             !.ns[t] = "none"], r.ret)

\* The critical section of State::notify, and the wake of the popped waker.
State_notify_lock(s, t) ==
    LET r == Sleepers_notify(s.sleepers)
    IN  Waker_wake([lock_acquire(s, t, "sleepers", "State::notify")
                       EXCEPT !.sleepers = r.sl, !.ns[t] = "none"], r.ret)

\* One whole call of State::notify with no other thread in between.
State_notify(s, t) ==
    LET c == State_notify_cas(s, t)
    IN  IF c.ns[t] = "lock" THEN State_notify_lock(c, t) ELSE c

\* ---- the queues (module taskqueue, modelled from the specification) --------
\* GlobalQueue::push / pop: an unbounded FIFO.
GlobalQueue_push(q, k) == Append(q, k)

\* LocalQueue::push(must_yield, r): ok is FALSE when the ring is full; a
\* just-yielded task is placed one hop behind the hot end.
LocalQueue_push(l, must_yield, k) ==
    IF Len(l) >= LocalCap THEN [ok |-> FALSE, l |-> l]
    ELSE IF must_yield /\ Len(l) > 0
         THEN [ok |-> TRUE, l |-> Append(Front(l), k) \o <<Last(l)>>]
         ELSE [ok |-> TRUE, l |-> Append(l, k)]

\* LocalQueue::steal_global: up to cap/2 items of the global queue move in.
steal_global(s, t) ==
    LET n == Min(Min(LocalCap \div 2, Len(s.queue)), LocalCap - Len(s.local[t]))
    IN  [s EXCEPT !.local[t] = @ \o SubSeq(s.queue, 1, n),
                  !.queue = SubSeq(@, n + 1, Len(@))]

\* LocalQueue::steal_local: up to half of the peer's items, oldest first.
steal_local(s, t, p) ==
    LET n == Min((Len(s.local[p]) + 1) \div 2, LocalCap - Len(s.local[t]))
    IN  [s EXCEPT !.local[t] = @ \o SubSeq(s.local[p], 1, n),
                  !.local[p] = SubSeq(@, n + 1, Len(@))]

\* ---- the thread-local slot -----------------------------------------------
\* state: "this" when TlsData.state is the State of the modelled executor,
\* "other" when it is the State of another executor; borrowed: the RefCell is
\* mutably borrowed (a try_push_tls further up the stack is invoking a waker).
NoTls == [set |-> FALSE, state |-> "this", borrowed |-> FALSE, pending |-> <<>>]

try_push_tls_nowake(s, t, k) ==
    IF ~s.tls[t].borrowed /\ s.tls[t].set /\ s.tls[t].state = "this"
    THEN [ok |-> TRUE, s |-> [s EXCEPT !.tls[t].pending = Append(@, k)]]
    ELSE [ok |-> FALSE, s |-> s]

try_push_tls_anystate(s, t, k) ==
    IF ~s.tls[t].borrowed /\ s.tls[t].set
    THEN LET w == Ticker_wake([s EXCEPT !.tls[t].pending = Append(@, k)], t)
         IN  [ok |-> TRUE, s |-> Waker_wake(w.s, w.ret)]
    ELSE [ok |-> FALSE, s |-> s]

\* try_push_tls, called on thread t with the State of the modelled executor.
\* A slot that holds this State holds the ticker of t's Runner.
try_push_tls(s, t, k) ==
    IF ~s.tls[t].borrowed /\ s.tls[t].set /\ s.tls[t].state = "this"
    THEN LET w == Ticker_wake([s EXCEPT !.tls[t].pending = Append(@, k)], t)
         IN  [ok |-> TRUE, s |-> Waker_wake(w.s, w.ret)]
    ELSE [ok |-> FALSE, s |-> s]

try_pop_tls_keep(s, t) ==
    IF s.tls[t].set
    THEN [some |-> TRUE, tasks |-> s.tls[t].pending, s |-> s]
    ELSE [some |-> FALSE, tasks |-> <<>>, s |-> s]

\* try_pop_tls on thread t: swaps the pending list with a fresh vector.
try_pop_tls(s, t) ==
    IF s.tls[t].set
    THEN [some |-> TRUE, tasks |-> s.tls[t].pending,
          s |-> [s EXCEPT !.tls[t].pending = <<>>]]
    ELSE [some |-> FALSE, tasks |-> <<>>, s |-> s]

TlsData_drop_lose(s, t) == s

\* Drop for TlsData: the pending tasks go to the global queue.
TlsData_drop(s, t) ==
    IF s.tls[t].state = "this"
    THEN [s EXCEPT !.queue = @ \o s.tls[t].pending]
    ELSE s

\* clear_tls on thread t.
clear_tls(s, t) == [TlsData_drop(s, t) EXCEPT !.tls[t] = NoTls]

schedule_silent(s, t, k) ==
    LET r == try_push_tls(s, t, k)
    IN  IF r.ok THEN r.s ELSE [s EXCEPT !.queue = GlobalQueue_push(@, k)]

\* The closure of Executor::schedule, invoked on thread t with runnable k.
schedule(s, t, k) ==
    LET r == try_push_tls(s, t, k)
    IN  IF r.ok THEN r.s
        ELSE call_notify([s EXCEPT !.queue = GlobalQueue_push(@, k)], t)


\* ---- tasks (the external task primitive) and the active set ---------------
\* st: "unspawned", "scheduled" (a Runnable exists), "idle" (pending, waiting
\* for its waker), "done" (the future completed or was dropped).
NoTask == [st |-> "unspawned", closed |-> FALSE, polled |-> FALSE, index |-> 0]
\* A task whose future is gone; its other fields are never read again.
DoneTask == [st |-> "done", closed |-> FALSE, polled |-> FALSE, index |-> 0]
Outcomes == {"ready", "pending", "yield"}

\* Executor::is_empty
is_empty(s) == \A i \in Task : s.active[i] = None

\* The CallOnDrop guard of Executor::spawn: removes the entry if present.
CallOnDrop_guard(s, k) ==
    LET i == s.task[k].index
    IN  IF s.active[i] # None THEN [s EXCEPT !.active[i] = None] ELSE s

\* The guard of LocalExecutor::spawn: Slab::remove, which panics on a vacant
\* key.
LocalExecutor_guard(s, k) ==
    LET i == s.task[k].index
    IN  IF s.active[i] # None
        THEN [s EXCEPT !.active[i] = None]
        ELSE [s EXCEPT !.panicked = TRUE]

\* The guard captured by the future of task k.
spawn_guard(s, k) ==
    IF s.flavor = "LocalExecutor"
    THEN LocalExecutor_guard(s, k)
    ELSE CallOnDrop_guard(s, k)

\* The closure of LocalExecutor::schedule.
LocalExecutor_schedule(s, t, k) ==
    call_notify([s EXCEPT !.queue = GlobalQueue_push(@, k)], t)

\* The schedule callback captured by task k.
Runnable_schedule(s, t, k) ==
    IF k = Foreign
    THEN IF ~s.tls[t].borrowed /\ s.tls[t].set /\ s.tls[t].state = "other"
         THEN [s EXCEPT !.tls[t].pending = Append(@, k)]
         ELSE s
    ELSE IF s.flavor = "LocalExecutor"
         THEN LocalExecutor_schedule(s, t, k)
         ELSE schedule(s, t, k)

\* Dropping the future of task k: the guard lives inside the async block, so
\* it exists only once the block has been polled.
future_drop(s, k) == IF s.task[k].polled THEN spawn_guard(s, k) ELSE s

\* Whether running (or dropping) the runnable of k takes the active-set lock.
takes_active_lock(s, k, o) ==
    /\ k # Foreign
    /\ IF s.task[k].closed THEN s.task[k].polled ELSE o = "ready"

\* Runnable::run on thread t with poll outcome o; yielded is its result.
Runnable_run(s, t, k, o) ==
    IF k = Foreign
    THEN IF o = "yield"
         THEN [s |-> Runnable_schedule(s, t, k), yielded |-> TRUE]
         ELSE [s |-> s, yielded |-> FALSE]
    ELSE IF s.task[k].closed
    THEN [s |-> [future_drop(s, k) EXCEPT !.task[k] = DoneTask],
          yielded |-> FALSE]
    ELSE LET s1 == [s EXCEPT !.task[k].polled = TRUE]
         IN  CASE o = "ready" ->
                    [s |-> [spawn_guard(s1, k) EXCEPT !.task[k] = DoneTask],
                     yielded |-> FALSE]
               [] o = "pending" ->
                    [s |-> [s1 EXCEPT !.task[k].st = "idle"], yielded |-> FALSE]
               [] OTHER ->
                    [s |-> Runnable_schedule([s1 EXCEPT !.task[k].st = "scheduled"],
                                            t, k),
                     yielded |-> TRUE]

\* Dropping a Runnable without running it: the task is closed, its future dropped.
Runnable_drop(s, k) ==
    [future_drop(s, k) EXCEPT !.task[k] = DoneTask]

\* Waker::wake of task k's waker, invoked on thread t.
Task_wake(s, t, k) ==
    IF s.task[k].st = "idle" /\ ~s.task[k].closed
    THEN Runnable_schedule([s EXCEPT !.task[k].st = "scheduled"], t, k)
    ELSE s

\* Dropping the Task handle of k on thread t: cancels the task.
Task_cancel(s, t, k) ==
    LET s1 == [s EXCEPT !.task[k].closed = TRUE]
    IN  IF s.task[k].st = "idle"
        THEN Runnable_schedule([s1 EXCEPT !.task[k].st = "scheduled"], t, k)
        ELSE s1

\* Slab::vacant_entry().key(): a vacant index (here the lowest one).
vacant_key(s) == CHOOSE i \in Task : s.active[i] = None /\
                     \A j \in Task : s.active[j] = None => i <= j

\* Executor::spawn up to and including runnable.schedule(); the active-set
\* guard is still held.
Executor_spawn(s, t) ==
    LET k == CHOOSE j \in Task : s.task[j].st = "unspawned" /\
                 \A h \in Task : s.task[h].st = "unspawned" => j <= h
        i == vacant_key(s)
        s1 == [s EXCEPT !.active_lock = t, !.active[i] = k,
                        !.task[k] = [st |-> "scheduled", closed |-> FALSE,
                                     polled |-> FALSE, index |-> i],
                        !.ret[t] = s.pc[t], !.pc[t] = "spawn_ret"]
    IN  Runnable_schedule(s1, t, k)

try_tick_pop_silent(s, t) ==
    IF Len(s.queue) = 0
    THEN [some |-> FALSE, s |-> s]
    ELSE [some |-> TRUE,
          s |-> [s EXCEPT !.held[t] = Head(s.queue), !.queue = Tail(@)]]

\* Executor::try_tick on thread t, up to the call of notify(): None when the
\* global queue is empty, else its head is taken and notify() is called.
try_tick_pop(s, t) ==
    IF Len(s.queue) = 0
    THEN [some |-> FALSE, s |-> s]
    ELSE [some |-> TRUE,
          s |-> call_notify([s EXCEPT !.held[t] = Head(s.queue),
                                      !.queue = Tail(@)], t)]

\* Executor::try_tick: runnable.run() with outcome o.
try_tick_run(s, t, o) ==
    Runnable_run([s EXCEPT !.held[t] = None], t, s.held[t], o).s

\* One whole call of Executor::try_tick with no other thread in between.
Executor_try_tick(s, t, o) ==
    LET p == try_tick_pop(s, t)
    IN  IF ~p.some
        THEN [ret |-> FALSE, s |-> s]
        ELSE [ret |-> TRUE, s |-> try_tick_run(State_notify(p.s, t), t, o)]

\* n calls of try_tick in a row on tasks that complete at their first poll:
\* the number of calls that returned true, and the state reached.
RECURSIVE try_tick_times(_, _, _)
try_tick_times(s, t, n) ==
    IF n = 0
    THEN [trues |-> 0, s |-> s]
    ELSE LET f == try_tick_times(s, t, n - 1)
             r == Executor_try_tick(f.s, t, "ready")
         IN  [trues |-> f.trues + (IF r.ret THEN 1 ELSE 0), s |-> r.s]

\* ---- Runner --------------------------------------------------------------
\* Runner::new and Runner::set_tls_active on thread t.
Runner_new(s, t) ==
    [lock_acquire(s, t, "registry", "Runner::new")
        EXCEPT !.local_queues = @ \cup {t}, !.local[t] = <<>>, !.ticks[t] = 0,
              !.sleeping[t] = 0,
              !.tls[t] = IF @.set THEN @ ELSE [NoTls EXCEPT !.set = TRUE]]

\* The loop over the drained TLS tasks in the search closure.
RECURSIVE push_all(_, _, _, _)
push_all(s, t, must_yield, tasks) ==
    IF tasks = <<>> THEN s
    ELSE LET r == LocalQueue_push(s.local[t], must_yield, Head(tasks))
             s1 == IF r.ok THEN [s EXCEPT !.local[t] = r.l]
                   ELSE [s EXCEPT !.queue = GlobalQueue_push(@, Head(tasks))]
         IN  push_all(s1, t, must_yield, Tail(tasks))

\* self.local.pop() returning Some(r): the hot end.
local_take(s, t) ==
    [s EXCEPT !.held[t] = Last(s.local[t]), !.local[t] = Front(@),
              !.pc[t] = "found"]

\* The search closure of Runner::runnable up to the searching_count increment.
Runner_search_local(s, t) ==
    LET must_yield == s.just_yielded[t]
        p == try_pop_tls([s EXCEPT !.just_yielded[t] = FALSE], t)
        s1 == IF p.some THEN push_all(p.s, t, must_yield, p.tasks) ELSE p.s
    IN  IF Len(s1.local[t]) > 0 THEN local_take(s1, t)
        ELSE [s1 EXCEPT !.searching_count = @ + 1, !.pc[t] = "steal"]

RECURSIVE SortedSeq(_)
SortedSeq(S) ==
    IF S = {} THEN <<>>
    ELSE LET m == CHOOSE x \in S : \A y \in S : x <= y
         IN  <<m>> \o SortedSeq(S \ {m})

\* local_queues.iter().chain(..).skip(start).take(n).filter(id != self.id)
peer_order(s, t, start) ==
    LET all == SortedSeq(s.local_queues)
        rot == SubSeq(all, start + 1, Len(all)) \o SubSeq(all, 1, start)
    IN  SelectSeq(rot, LAMBDA p : p # t)

\* The loop over the peers: ret tells whether a runnable was taken.
RECURSIVE steal_peers(_, _, _)
steal_peers(s, t, order) ==
    IF order = <<>> THEN [s |-> s, ret |-> FALSE]
    ELSE LET s1 == steal_local(s, t, Head(order))
         IN  IF Len(s1.local[t]) > 0 THEN [s |-> local_take(s1, t), ret |-> TRUE]
             ELSE steal_peers(s1, t, Tail(order))

Runner_search_steal_leak(s, t, start) ==
    LET s1 == steal_global(s, t)
    IN  IF Len(s1.local[t]) > 0
        THEN local_take(s1, t)
        ELSE LET r == steal_peers(s1, t, peer_order(s1, t, start))
             IN  IF r.ret THEN [r.s EXCEPT !.searching_count = @ - 1]
                 ELSE [r.s EXCEPT !.searching_count = @ - 1, !.pc[t] = "sleep"]

\* The search closure from steal_global to its return.
Runner_search_steal(s, t, start) ==
    LET s1 == steal_global(s, t)
    IN  IF Len(s1.local[t]) > 0
        THEN [local_take(s1, t) EXCEPT !.searching_count = @ - 1]
        ELSE LET s2 == lock_acquire(s1, t, "registry", "Runner::runnable")
                 r == steal_peers(s2, t, peer_order(s2, t, start))
             IN  IF r.ret THEN [r.s EXCEPT !.searching_count = @ - 1]
                 ELSE [r.s EXCEPT !.searching_count = @ - 1, !.pc[t] = "sleep"]

\* The search closure of Ticker::runnable (tick()): pop the global queue.
Ticker_search(s, t) ==
    IF Len(s.queue) > 0
    THEN [s EXCEPT !.held[t] = Head(s.queue), !.queue = Tail(@), !.pc[t] = "found"]
    ELSE [s EXCEPT !.pc[t] = "sleep"]

runnable_with_some_always(s, t) == call_notify(Ticker_wake(s, t).s, t)

\* The Some(r) arm of Ticker::runnable_with: wake, then the sibling notification.
runnable_with_some(s, t) ==
    LET w == Ticker_wake(s, t).s
    IN  IF w.searching_count = 0 THEN call_notify(w, t) ELSE w

runnable_with_none_eager(s, t) ==
    [Ticker_sleep(s, t).s EXCEPT !.pc[t] = "parked"]

\* The None arm of Ticker::runnable_with: sleep; loop again or return Pending.
runnable_with_none(s, t) ==
    LET r == Ticker_sleep(s, t)
    IN  [r.s EXCEPT !.pc[t] = IF r.ret THEN "search" ELSE "parked"]

run_forever_step_greedy(s, t, o) ==
    LET r == Runnable_run([s EXCEPT !.held[t] = None], t, s.held[t], o)
    IN  [r.s EXCEPT !.just_yielded[t] = r.yielded, !.pc[t] = "search"]

\* The tail of Runner::runnable: bump ticks and, every TickPeriod, steal_global.
Runner_tick(s, t) ==
    LET n == (s.ticks[t] + 1) % TickPeriod
        s1 == [s EXCEPT !.ticks[t] = n, !.pc[t] = "run"]
    IN  IF n = 0 THEN steal_global(s1, t) ELSE s1

\* One iteration of run_forever after the runnable was obtained.
run_forever_step(s, t, o) ==
    LET r == Runnable_run([s EXCEPT !.held[t] = None], t, s.held[t], o)
        s1 == [r.s EXCEPT !.just_yielded[t] = r.yielded]
    IN  IF s.iter[t] + 1 >= YieldEvery
        THEN [s1 EXCEPT !.iter[t] = 0, !.woken[t] = TRUE, !.pc[t] = "parked"]
        ELSE [s1 EXCEPT !.iter[t] = @ + 1, !.pc[t] = "search"]

\* Drop for Runner: deregister the local queue.
Runner_drop(s, t) ==
    [lock_acquire(s, t, "registry", "Runner::drop")
        EXCEPT !.local_queues = @ \ {t}, !.pc[t] = "exit_resched"]

\* Drop for Runner: one turn of `while let Some(r) = self.local.pop()`.
Runner_drop_resched(s, t) ==
    IF Len(s.local[t]) > 0
    THEN Runnable_schedule([s EXCEPT !.local[t] = Front(@)], t,
                           Last(s.local[t]))
    ELSE [s EXCEPT !.pc[t] = "exit_ticker"]


\* ---- the state machine ---------------------------------------------------
Fresh ==
    /\ queue = <<>>
    /\ searching_count = 0
    /\ local_queues = {}
    /\ notified = TRUE
    /\ sleepers = [count |-> 0, wakers |-> <<>>, free_ids |-> <<>>]
    /\ active = [i \in Task |-> None]
    /\ active_lock = None
    /\ sleeping = [t \in Thr |-> 0]
    /\ local = [t \in Thr |-> <<>>]
    /\ ticks = [t \in Thr |-> 0]
    /\ just_yielded = [t \in Thr |-> FALSE]
    /\ iter = [t \in Thr |-> 0]
    /\ held = [t \in Thr |-> None]
    /\ pc = [t \in Thr |-> "idle"]
    /\ mode = [t \in Thr |-> "none"]
    /\ ret = [t \in Thr |-> "idle"]
    /\ ns = [t \in Thr |-> "none"]
    /\ woken = [t \in Thr |-> FALSE]
    /\ task = [k \in Task |-> NoTask]
    /\ drained = FALSE
    /\ dropped = FALSE
    /\ dreg = {}
    /\ dwakes = [k \in Task |-> 0]
    /\ panicked = FALSE
    /\ since_poll = [t \in Thr |-> 0]

\* Executor::new
Init ==
    /\ Fresh /\ flavor = "Executor"
    /\ tls = [t \in Thr |-> NoTls]
    /\ locklog = [on |-> FALSE, nested |-> {}]

\* Executor::new, with the lock acquisitions recorded.
InitLocks ==
    /\ Fresh /\ flavor = "Executor"
    /\ tls = [t \in Thr |-> NoTls]
    /\ locklog = [on |-> TRUE, nested |-> {}]

\* Executor::new on a thread that is inside run() of another executor, whose
\* future calls run() of this one: the TLS slot of thread 1 was populated
\* by the other executor's set_tls_active and holds its State, its ticker
\* and the runnables its schedule callback handed over so far.
InitShared ==
    /\ Fresh /\ flavor = "Executor"
    /\ \E p \in {<<>>, <<Foreign>>} :
          tls = [t \in Thr |->
                    IF t = 1
                    THEN [set |-> TRUE, state |-> "other", borrowed |-> FALSE,
                          pending |-> p]
                    ELSE NoTls]
    /\ locklog = [on |-> FALSE, nested |-> {}]

\* LocalExecutor::new
InitLocal ==
    /\ Fresh /\ flavor = "LocalExecutor"
    /\ tls = [t \in Thr |-> NoTls]
    /\ locklog = [on |-> FALSE, nested |-> {}]

\* A step of the program; `drained` records only a try_tick that returned false.
Step(s) == Set([s EXCEPT !.drained = FALSE])

\* Thread t is not inside State::notify and the executor is alive.
Free(t) == ns[t] = "none" /\ ~dropped /\ ~panicked

\* Some thread is inside Drop for Executor (which takes &mut self).
Dropping == \E u \in Thr : pc[u] \in {"drop_wake", "drop_drain"}

\* Where thread t runs client code: a client thread outside any call, or a
\* runner thread polling the future passed to run().
ClientAt(t) ==
    /\ Free(t) /\ ~Dropping
    /\ \/ t \notin Runners /\ pc[t] = "idle"
       \/ t \in Runners /\ pc[t] = "outer"

\* State::notify: the compare-exchange.
NotifyCas(t) == ns[t] = "cas" /\ Step(State_notify_cas(Cur, t))

\* State::notify: the critical section and the wake.
NotifyLock(t) == ns[t] = "lock" /\ Step(State_notify_lock(Cur, t))

\* Executor::run: Runner::new, set_tls_active, then the first poll begins.
StartRun(t) ==
    /\ t \in Runners /\ Free(t) /\ ~Dropping /\ pc[t] = "idle"
    /\ Step([Runner_new(Cur, t) EXCEPT !.mode[t] = "run", !.iter[t] = 0,
                                       !.woken[t] = FALSE, !.pc[t] = "outer"])

\* block_on polls the suspended future again: its waker was invoked, or the
\* future passed to run() was woken by something outside the executor.
Poll(t) ==
    /\ Free(t) /\ pc[t] = "parked"
    /\ Step([Cur EXCEPT !.woken[t] = FALSE,
                        !.pc[t] = IF mode[t] = "run" THEN "outer" ELSE "search"])

\* `future.or(run_forever)`: the outer future is ready, run() returns.
OuterReady(t) ==
    /\ Free(t) /\ pc[t] = "outer"
    /\ Step([Cur EXCEPT !.pc[t] = "exit_tls"])

\* The outer future is pending: run_forever is polled.
OuterPending(t) ==
    /\ Free(t) /\ pc[t] = "outer"
    /\ Step([Cur EXCEPT !.pc[t] = "search"])

\* One call of the search closure, first part.
Search(t) ==
    /\ Free(t) /\ pc[t] = "search"
    /\ Step(IF mode[t] = "run" THEN Runner_search_local(Cur, t)
            ELSE Ticker_search(Cur, t))

\* The search closure of the Runner, steal part (fastrand picks start).
Steal(t) ==
    /\ Free(t) /\ pc[t] = "steal"
    /\ \E start \in 0..(Cardinality(local_queues) - 1) :
          Step(Runner_search_steal(Cur, t, start))

\* Ticker::runnable_with, the None arm.
Sleep(t) ==
    /\ Free(t) /\ pc[t] = "sleep"
    /\ Step(runnable_with_none(Cur, t))

\* Ticker::runnable_with, the Some arm.
Found(t) ==
    /\ Free(t) /\ pc[t] = "found"
    /\ Step([runnable_with_some(Cur, t) EXCEPT
                !.pc[t] = IF mode[t] = "run" THEN "ticked" ELSE "tick_run"])

\* Runner::runnable after the await.
Ticked(t) ==
    /\ Free(t) /\ pc[t] = "ticked"
    /\ Step(Runner_tick(Cur, t))

\* run_forever: runnable.run() with poll outcome o, and the loop bookkeeping.
RunTaskWith(t, o) ==
    /\ Free(t) /\ pc[t] = "run"
    /\ takes_active_lock(Cur, held[t], o) => active_lock = None
    /\ Step(run_forever_step(Cur, t, o))

RunTask(t) == \E o \in Outcomes : RunTaskWith(t, o)

\* run() returns: the CallOnDrop(clear_tls) guard.
ExitTls(t) ==
    /\ Free(t) /\ pc[t] = "exit_tls"
    /\ Step([clear_tls(Cur, t) EXCEPT !.pc[t] = "exit_runner"])

\* run() returns: Drop for Runner, deregistration.
ExitRunner(t) ==
    /\ Free(t) /\ pc[t] = "exit_runner"
    /\ Step(Runner_drop(Cur, t))

\* run() returns: Drop for Runner, the re-schedule loop.
ExitResched(t) ==
    /\ Free(t) /\ pc[t] = "exit_resched"
    /\ Step(Runner_drop_resched(Cur, t))

\* run() returns: the Runner's fields are dropped, the Ticker last.
ExitTicker(t) ==
    /\ Free(t) /\ pc[t] = "exit_ticker"
    /\ Step([Ticker_drop(Cur, t) EXCEPT !.mode[t] = "none", !.woken[t] = FALSE,
                                        !.iter[t] = 0, !.ticks[t] = 0,
                                        !.pc[t] = "idle"])

\* Executor::spawn.
Spawn(t) ==
    /\ ClientAt(t) /\ active_lock = None
    /\ \E k \in Task : task[k].st = "unspawned"
    /\ Step(Executor_spawn(Cur, t))

SpawnRet_keep(t) ==
    /\ Free(t) /\ pc[t] = "spawn_ret"
    /\ Step([Cur EXCEPT !.pc[t] = ret[t], !.ret[t] = "idle"])

\* Executor::spawn returns: the active-set guard is released.
SpawnRet(t) ==
    /\ Free(t) /\ pc[t] = "spawn_ret"
    /\ Step([Cur EXCEPT !.active_lock = None, !.pc[t] = ret[t], !.ret[t] = "idle"])

\* Something on thread t invokes the waker of a pending task.
WakeTask(t) ==
    /\ ClientAt(t)
    /\ \E k \in Task :
          /\ task[k].st = "idle" /\ ~task[k].closed
          /\ Step(Task_wake(Cur, t, k))

\* Task k is the one a spawn call in progress is creating: spawn holds the
\* active-set lock and tasks are numbered in spawn order.
Spawning(k) ==
    /\ \E u \in Thr : pc[u] = "spawn_ret"
    /\ task[k].st # "unspawned"
    /\ \A j \in Task : task[j].st # "unspawned" => j <= k

\* Thread t drops the Task handle of a task (the handle spawn returned).
CancelTask(t) ==
    /\ ClientAt(t)
    /\ \E k \in Task :
          /\ task[k].st \in {"scheduled", "idle"} /\ ~task[k].closed
          /\ ~Spawning(k)
          /\ Step(Task_cancel(Cur, t, k))

\* Executor::try_tick: the pop, and the notify call when a runnable was found.
TryTick(t) ==
    /\ ClientAt(t)
    /\ LET r == try_tick_pop(Cur, t)
       IN  IF ~r.some
           THEN Set([Cur EXCEPT !.drained = TRUE])
           ELSE Step([r.s EXCEPT !.ret[t] = pc[t], !.pc[t] = "tt_run"])

\* Executor::try_tick: runnable.run().
TryTickRun(t) ==
    /\ Free(t) /\ pc[t] = "tt_run"
    /\ \E o \in Outcomes :
          /\ takes_active_lock(Cur, held[t], o) => active_lock = None
          /\ Step([try_tick_run(Cur, t, o)
                      EXCEPT !.pc[t] = ret[t], !.ret[t] = "idle"])

\* Executor::tick: Ticker::new, and the first poll of runnable() begins.
StartTick(t) ==
    /\ t \notin Runners /\ Free(t) /\ ~Dropping /\ pc[t] = "idle"
    /\ Step([Cur EXCEPT !.mode[t] = "tick", !.sleeping[t] = 0,
                        !.woken[t] = FALSE, !.pc[t] = "search"])

\* Executor::tick: the Ticker is dropped (awake), then runnable.run().
TickRun(t) ==
    /\ Free(t) /\ pc[t] = "tick_run"
    /\ \E o \in Outcomes :
          /\ takes_active_lock(Cur, held[t], o) => active_lock = None
          /\ Step([Runnable_run([Cur EXCEPT !.held[t] = None], t, held[t], o).s
                      EXCEPT !.mode[t] = "none", !.pc[t] = "idle"])

\* The future of tick() is dropped while suspended: Drop for Ticker.
TickCancel(t) ==
    /\ Free(t) /\ pc[t] = "parked" /\ mode[t] = "tick"
    /\ Step([Ticker_drop(Cur, t) EXCEPT !.mode[t] = "none", !.woken[t] = FALSE,
                                        !.pc[t] = "idle"])


\* ---- Drop for Executor ---------------------------------------------------
\* No run() or tick() future borrows the executor, and no call is in progress.
Unborrowed ==
    \A u \in Thr : pc[u] = "idle" /\ mode[u] = "none" /\ ns[u] = "none"

Executor_drop_wake_keeplock(s, t) ==
    IF \E i \in Task : s.active[i] # None
    THEN LET i == CHOOSE j \in Task : s.active[j] # None /\
                      \A h \in Task : s.active[h] # None => j <= h
             k == s.active[i]
         IN  Task_wake([s EXCEPT !.active[i] = None, !.dwakes[k] = @ + 1], t, k)
    ELSE [s EXCEPT !.pc[t] = "drop_drain"]

\* Drop for Executor: one turn of `for w in active.drain() { w.wake() }`, and
\* after the last one `drop(active)`.
Executor_drop_wake(s, t) ==
    IF \E i \in Task : s.active[i] # None
    THEN LET i == CHOOSE j \in Task : s.active[j] # None /\
                      \A h \in Task : s.active[h] # None => j <= h
             k == s.active[i]
         IN  Task_wake([s EXCEPT !.active[i] = None, !.dwakes[k] = @ + 1], t, k)
    ELSE [s EXCEPT !.active_lock = None, !.pc[t] = "drop_drain"]

\* Drop for Executor: one turn of `while state.queue.pop().is_some() {}`.
Executor_drop_drain(s, t) ==
    IF Len(s.queue) > 0
    THEN Runnable_drop([s EXCEPT !.queue = Tail(@)], Head(s.queue))
    ELSE [s EXCEPT !.dropped = TRUE, !.pc[t] = "idle"]

\* Drop for Executor: `state.active.lock()`.
DropLock(t) ==
    /\ t \notin Runners /\ ~dropped /\ ~panicked /\ Unborrowed
    /\ active_lock = None
    /\ Step([Cur EXCEPT !.active_lock = t, !.pc[t] = "drop_wake",
                        !.dreg = {k \in Task : \E i \in Task : active[i] = k}])

DropWake(t) ==
    /\ Free(t) /\ pc[t] = "drop_wake"
    /\ Step(Executor_drop_wake(Cur, t))

DropDrain(t) ==
    /\ Free(t) /\ pc[t] = "drop_drain"
    /\ (Len(queue) > 0 /\ task[Head(queue)].polled) => active_lock = None
    /\ Step(Executor_drop_drain(Cur, t))

Next ==
    \/ \E t \in Thr : NotifyCas(t)
    \/ \E t \in Thr : NotifyLock(t)
    \/ \E t \in Thr : StartRun(t)
    \/ \E t \in Thr : Poll(t)
    \/ \E t \in Thr : OuterReady(t)
    \/ \E t \in Thr : OuterPending(t)
    \/ \E t \in Thr : Search(t)
    \/ \E t \in Thr : Steal(t)
    \/ \E t \in Thr : Sleep(t)
    \/ \E t \in Thr : Found(t)
    \/ \E t \in Thr : Ticked(t)
    \/ \E t \in Thr : RunTask(t)
    \/ \E t \in Thr : ExitTls(t)
    \/ \E t \in Thr : ExitRunner(t)
    \/ \E t \in Thr : ExitResched(t)
    \/ \E t \in Thr : ExitTicker(t)
    \/ \E t \in Thr : Spawn(t)
    \/ \E t \in Thr : SpawnRet(t)
    \/ \E t \in Thr : WakeTask(t)
    \/ \E t \in Thr : CancelTask(t)
    \/ \E t \in Thr : TryTick(t)
    \/ \E t \in Thr : TryTickRun(t)
    \/ \E t \in Thr : StartTick(t)
    \/ \E t \in Thr : TickRun(t)
    \/ \E t \in Thr : TickCancel(t)
    \/ \E t \in Thr : DropLock(t)
    \/ \E t \in Thr : DropWake(t)
    \/ \E t \in Thr : DropDrain(t)

Spec == Init /\ [][Next]_vars

\* ---- the scenarios that are explored exhaustively ---------------------------
Clients == Thr \ Runners
Spawned == Cardinality({k \in Task : task[k].st # "unspawned"})

\* The steps of a thread inside run(), except runnable.run().
RunnerStep(t) ==
    \/ NotifyCas(t) \/ NotifyLock(t) \/ StartRun(t) \/ Poll(t) \/ OuterReady(t)
    \/ OuterPending(t) \/ Search(t) \/ Steal(t) \/ Sleep(t) \/ Found(t)
    \/ Ticked(t) \/ ExitTls(t) \/ ExitRunner(t) \/ ExitResched(t)
    \/ ExitTicker(t) \/ SpawnRet(t)

\* A pool of workers: every thread of Runners enters and leaves run(), the
\* future passed to run() spawns MaxTasks tasks, and a polled task completes
\* or yields (wakes itself).
PoolNext ==
    \E t \in Runners :
        \/ RunnerStep(t)
        \/ Spawn(t)
        \/ \E o \in {"ready", "yield"} : RunTaskWith(t, o)

SpecPool == Init /\ [][PoolNext]_vars

\* Sleeping and notification: the workers of Runners, and client threads that
\* spawn tasks and wake pending ones from outside the pool (each a notify()).
NotifyNext ==
    \/ \E t \in Runners : RunnerStep(t) \/ RunTask(t)
    \/ \E t \in Clients :
          \/ NotifyCas(t) \/ NotifyLock(t) \/ SpawnRet(t) \/ WakeTask(t)
          \/ Spawned < FewTasks /\ Spawn(t)

SpecNotify == Init /\ [][NotifyNext]_vars

\* The driver operations: one thread inside run() whose future spawns, wakes,
\* cancels and calls try_tick, and client threads that do the same and also
\* call tick() and drop the executor.
DriverOp(t) ==
    \/ WakeTask(t) \/ CancelTask(t) \/ TryTick(t) \/ TryTickRun(t) \/ SpawnRet(t)
    \/ Spawned < FewTasks /\ Spawn(t)

DriverNext ==
    \/ \E t \in {1} : RunnerStep(t) \/ RunTask(t) \/ DriverOp(t)
    \/ \E t \in Clients :
          \/ DriverOp(t)
          \/ NotifyCas(t) \/ NotifyLock(t)
          \/ StartTick(t) \/ Poll(t) \/ Search(t) \/ Sleep(t) \/ Found(t)
          \/ TickRun(t) \/ TickCancel(t)
          \/ DropLock(t) \/ DropWake(t) \/ DropDrain(t)

SpecDriver == Init /\ [][DriverNext]_vars

\* The same scenario with the lock acquisitions recorded.
SpecLocks == InitLocks /\ [][DriverNext]_vars

\* Two executors on one thread: thread 1 enters and leaves run() of this
\* executor inside run() of another one; the future passed to run() and the
\* client threads spawn and wake tasks.
SharedNext ==
    \/ \E t \in {1} :
          \/ RunnerStep(t) \/ RunTask(t) \/ WakeTask(t)
          \/ Spawned < FewTasks /\ Spawn(t)
    \/ \E t \in Clients :
          \/ NotifyCas(t) \/ NotifyLock(t) \/ SpawnRet(t) \/ WakeTask(t)
          \/ Spawned < FewTasks /\ Spawn(t)

SpecShared == InitShared /\ [][SharedNext]_vars

\* A LocalExecutor is confined to one thread, which spawns, wakes and cancels
\* tasks, calls try_tick() and tick(), and at last drops the executor; thread
\* 1 holds wakers of its tasks.
\* Wakers are Send: another thread invokes the waker of a pending task.
RemoteWake(t) ==
    /\ Free(t) /\ ~Dropping /\ pc[t] = "idle"
    /\ \E k \in Task : task[k].st = "idle" /\ Step(Task_wake(Cur, t, k))

LocalNext ==
    \/ \E t \in Clients :
          \/ DriverOp(t)
          \/ NotifyCas(t) \/ NotifyLock(t)
          \/ StartTick(t) \/ Poll(t) \/ Search(t) \/ Sleep(t) \/ Found(t)
          \/ TickRun(t) \/ TickCancel(t)
          \/ DropLock(t) \/ DropWake(t) \/ DropDrain(t)
    \/ \E t \in {1} : RemoteWake(t) \/ NotifyCas(t) \/ NotifyLock(t)

SpecLocal == InitLocal /\ [][LocalNext]_vars

\* The inputs of the schedule callback.  Every task is pending (polled once,
\* its waker registered).  Each runner thread is inside run(), polling the
\* future passed to it; its TLS slot holds this executor's State, or that of
\* another executor whose run() is further up the stack, and may be borrowed
\* by a try_push_tls that is invoking a waker; its ticker is awake or sleeps
\* unnotified.  A client thread is outside run(): its slot is empty or
\* belongs to another executor.
InitSchedule ==
    /\ queue = <<>>
    /\ searching_count = 0
    /\ local_queues = Runners
    /\ active = [i \in Task |-> i]
    /\ active_lock = None
    /\ local = [t \in Thr |-> <<>>]
    /\ ticks = [t \in Thr |-> 0]
    /\ tls \in [Thr -> [set : BOOLEAN, state : {"this", "other"},
                       borrowed : BOOLEAN, pending : {<<>>}]]
    /\ \A t \in Thr :
          /\ t \in Runners => tls[t].set
          /\ t \notin Runners => (tls[t].set => tls[t].state = "other")
          /\ ~tls[t].set => tls[t] = NoTls
    /\ \E S \in SUBSET Runners :
          LET order == SortedSeq(S)
          IN  /\ sleeping = [t \in Thr |->
                    IF t \in S
                    THEN CHOOSE i \in 1..Len(order) : order[i] = t
                    ELSE 0]
              /\ sleepers = [count |-> Len(order),
                             wakers |-> [i \in 1..Len(order) |-> <<i, order[i]>>],
                             free_ids |-> <<>>]
    /\ notified = is_notified(sleepers)
    /\ just_yielded = [t \in Thr |-> FALSE]
    /\ iter = [t \in Thr |-> 0]
    /\ held = [t \in Thr |-> None]
    /\ pc = [t \in Thr |-> IF t \in Runners THEN "outer" ELSE "idle"]
    /\ mode = [t \in Thr |-> IF t \in Runners THEN "run" ELSE "none"]
    /\ ret = [t \in Thr |-> "idle"]
    /\ ns = [t \in Thr |-> "none"]
    /\ woken = [t \in Thr |-> FALSE]
    /\ task = [k \in Task |-> [st |-> "idle", closed |-> FALSE,
                               polled |-> TRUE, index |-> k]]
    /\ drained = FALSE
    /\ dropped = FALSE
    /\ dreg = {}
    /\ dwakes = [k \in Task |-> 0]
    /\ panicked = FALSE
    /\ since_poll = [t \in Thr |-> 0]
    /\ flavor = "Executor"
    /\ locklog = [on |-> FALSE, nested |-> {}]

\* Wakers of the tasks are invoked on any thread; each runs the schedule
\* callback and, on the fallback path, State::notify.
ScheduleNext ==
    \E t \in Thr : WakeTask(t) \/ NotifyCas(t) \/ NotifyLock(t)

SpecSchedule == InitSchedule /\ [][ScheduleNext]_vars

\* One worker: thread 1 calls run() once with a future that joins the Task
\* handles of the FewTasks tasks a client thread spawns.  block_on polls the
\* future again only when its waker was invoked; a task is polled at most
\* twice (it may yield or wait for its waker once, then it returns).
Awaited == 1..FewTasks
AllDone(s) == \A k \in Awaited : s.task[k].st = "done"

\* The completion of an awaited task invokes the waker its Task handle holds,
\* the waker of the thread t that polls run().
Awaiter_wake(s0, s1, t) ==
    IF \E k \in Awaited : s0.task[k].st # "done" /\ s1.task[k].st = "done"
    THEN [s1 EXCEPT !.woken[t] = TRUE]
    ELSE s1

SingleRun(t) ==
    /\ Free(t) /\ pc[t] = "run"
    /\ \E o \in (IF task[held[t]].polled THEN {"ready"} ELSE Outcomes) :
          /\ takes_active_lock(Cur, held[t], o) => active_lock = None
          /\ Step(Awaiter_wake(Cur, run_forever_step(Cur, t, o), t))

SingleWorker(t) ==
    \/ ~AllDone(Cur) /\ StartRun(t)
    \/ woken[t] /\ Poll(t)
    \/ AllDone(Cur) /\ OuterReady(t)
    \/ ~AllDone(Cur) /\ OuterPending(t)
    \/ NotifyCas(t) \/ NotifyLock(t) \/ Search(t) \/ Steal(t) \/ Sleep(t)
    \/ Found(t) \/ Ticked(t) \/ SingleRun(t)
    \/ ExitTls(t) \/ ExitRunner(t) \/ ExitResched(t) \/ ExitTicker(t)

SingleClient(t) ==
    \/ NotifyCas(t) \/ NotifyLock(t) \/ SpawnRet(t) \/ WakeTask(t)
    \/ Spawned < FewTasks /\ Spawn(t)

SingleNext ==
    \/ \E t \in {1} : SingleWorker(t)
    \/ \E t \in Clients : SingleClient(t)

\* Every thread keeps running: the scheduler of the operating system is fair.
SpecSingle ==
    /\ Init /\ [][SingleNext]_vars
    /\ WF_vars(\E t \in {1} : SingleWorker(t))
    /\ \A t \in Clients : WF_vars(SingleClient(t))

\* run() has returned on thread t after every awaited task completed.
Returned(t) == pc[t] = "idle" /\ mode[t] = "none" /\ AllDone(Cur)

\* C11: with a single worker and tasks that complete after finitely many
\* polls, run() eventually returns (every awaited task has produced its
\* value), and from then on the active-task set and the global queue are empty.
C11_RunCompletes ==
    <>[](Returned(1) /\ is_empty(Cur) /\ queue = <<>>)

\* run() has returned after the worker slept at least once (an id was freed)
\* and every task was polled; nothing is left.
C11_Witness ==
    /\ Returned(1) /\ is_empty(Cur) /\ queue = <<>>
    /\ sleepers.free_ids # <<>>

\* A saturated worker: thread 1 calls run() once with a future that awaits
\* task 1, while the other tasks yield at every poll and so are always
\* runnable.  block_on polls the outer future again only when its waker was
\* invoked; since_poll counts the runnables run since that poll.
YieldPoll(t) ==
    /\ Free(t) /\ pc[t] = "parked" /\ woken[t] /\ mode[t] = "run"
    /\ Step([Cur EXCEPT !.woken[t] = FALSE, !.pc[t] = "outer",
                        !.since_poll[t] = 0])

YieldRun(t) ==
    /\ Free(t) /\ pc[t] = "run"
    /\ \E o \in (IF held[t] = 1 THEN {"ready", "yield"} ELSE {"yield"}) :
          /\ takes_active_lock(Cur, held[t], o) => active_lock = None
          /\ Step([Awaiter_wake(Cur, run_forever_step(Cur, t, o), t)
                      EXCEPT !.since_poll[t] = Min(@ + 1, YieldEvery + 1)])

YieldWorker(t) ==
    \/ task[1].st # "done" /\ StartRun(t)
    \/ YieldPoll(t)
    \/ task[1].st = "done" /\ OuterReady(t)
    \/ task[1].st # "done" /\ OuterPending(t)
    \/ NotifyCas(t) \/ NotifyLock(t) \/ Search(t) \/ Steal(t) \/ Sleep(t)
    \/ Found(t) \/ Ticked(t) \/ YieldRun(t)
    \/ ExitTls(t) \/ ExitRunner(t) \/ ExitResched(t) \/ ExitTicker(t)

YieldClient(t) == NotifyCas(t) \/ NotifyLock(t) \/ SpawnRet(t) \/ Spawn(t)

YieldNext ==
    \/ \E t \in {1} : YieldWorker(t)
    \/ \E t \in Clients : YieldClient(t)

SpecYield ==
    /\ Init /\ [][YieldNext]_vars
    /\ WF_vars(\E t \in {1} : YieldWorker(t))
    /\ \A t \in Clients : WF_vars(YieldClient(t))

\* ---- ownership of runnables ---------------------------------------------------
\* The places that hold the runnable of task k.
Locations(k) ==
    {<<"queue", 0, i>> : i \in {j \in 1..Len(queue) : queue[j] = k}}
    \cup UNION {{<<"local", t, i>> : i \in {j \in 1..Len(local[t]) : local[t][j] = k}}
                : t \in Thr}
    \cup UNION {{<<"tls", t, i>> :
                    i \in {j \in 1..Len(tls[t].pending) : tls[t].pending[j] = k}}
                : t \in Thr}
    \cup {<<"held", t, 0>> : t \in {u \in Thr : held[u] = k}}

\* C1: in every reachable state the Runnable of a scheduled task is held by
\* exactly one location (the global queue, one local queue, one TLS pending
\* list, or one worker about to run it), and a task that is pending, finished
\* or not yet spawned has no Runnable anywhere: none is duplicated, none is
\* run twice.
C1_OneOwner ==
    \A k \in Task :
        Cardinality(Locations(k)) = IF task[k].st = "scheduled" THEN 1 ELSE 0

\* Every task is scheduled, one already re-scheduled itself, and the runnables
\* are spread over the global queue, a local queue and a worker.
C1_Witness ==
    /\ \A k \in Task : task[k].st = "scheduled"
    /\ \E k \in Task : task[k].polled
    /\ queue # <<>>
    /\ \E t \in Runners : local[t] # <<>>
    /\ \E t \in Runners : held[t] # None

\* ---- work conservation --------------------------------------------------------
\* Thread t returned Pending from run() while registered in Sleepers, its waker
\* is still in the table and has not been invoked.
Parked(t) ==
    /\ mode[t] = "run" /\ pc[t] = "parked" /\ ~woken[t]
    /\ sleeping[t] # 0
    /\ \E i \in 1..Len(sleepers.wakers) : sleepers.wakers[i][1] = sleeping[t]

\* C2: no reachable state has a runnable in the global queue or a local queue
\* while at least one Runner is parked, every Runner is parked, no other
\* thread is inside a call and no notify() is in flight (no wake-up pending).
C2_NoStrandedWork ==
    ~ /\ queue # <<>> \/ \E t \in Thr : local[t] # <<>>
      /\ \E t \in Thr : Parked(t)
      /\ \A t \in Thr : /\ ns[t] = "none"
                         /\ IF mode[t] = "run" THEN Parked(t) ELSE pc[t] = "idle"

\* ---- Runner exit --------------------------------------------------------------
\* C7: when run() returns, clear_tls moves every runnable of the TLS pending
\* list to the global queue, Drop for Runner takes the local queue out of the
\* registry and moves every runnable of the local queue to the global queue,
\* and a thread that has left run() holds nothing in either place.
C7_NoWorkLost ==
    \A t \in Runners :
        /\ pc[t] = "exit_tls" =>
              LET s1 == clear_tls(Cur, t)
              IN  /\ s1.queue = queue \o tls[t].pending
                  /\ s1.tls[t].pending = <<>>
                  /\ s1.local = local
        /\ pc[t] = "exit_runner" =>
              /\ tls[t].pending = <<>>
              /\ t \notin Runner_drop(Cur, t).local_queues
              /\ Runner_drop(Cur, t).local = local
        /\ pc[t] = "exit_resched" =>
              /\ t \notin local_queues /\ tls[t].pending = <<>>
              /\ local[t] # <<>> =>
                    LET s1 == Runner_drop_resched(Cur, t)
                    IN  /\ s1.queue = Append(queue, Last(local[t]))
                        /\ s1.local[t] = Front(local[t])
                        /\ s1.pc[t] = "exit_resched"
        /\ pc[t] \in {"exit_ticker", "idle"} =>
              /\ local[t] = <<>> /\ tls[t].pending = <<>>
              /\ t \notin local_queues

\* A Runner is leaving run() with runnables both in its TLS pending list and in
\* its local queue.
C7_Witness ==
    \E t \in Runners :
        pc[t] = "exit_tls" /\ tls[t].pending # <<>> /\ local[t] # <<>>

\* ---- the notified flag and the sleepers table -----------------------------------
\* No thread is inside State::notify (Ticker::sleep, wake and drop are single
\* steps, so no thread is ever inside them between two states).
NoSleepersOp == \A t \in Thr : ns[t] = "none"

\* C3: at every point where no thread is inside State::notify, Ticker::sleep,
\* Ticker::wake or Ticker::drop, the notified flag equals
\* Sleepers::is_notified(), that is count == 0 || count > wakers.len().
C3_Mirror == NoSleepersOp => notified = is_notified(sleepers)

\* C4: after any sequence of Sleepers operations issued by Ticker::sleep,
\* Ticker::wake, Ticker::drop and State::notify, wakers.len() <= count, and
\* count has not gone below zero.
C4_WakersBounded ==
    /\ Len(sleepers.wakers) <= sleepers.count
    /\ sleepers.count >= 0

\* Two tickers are registered, one of them notified (its waker was taken out),
\* and no id was ever freed.
C4_Witness ==
    /\ sleepers.count = NRunners
    /\ Len(sleepers.wakers) < sleepers.count
    /\ sleepers.free_ids = <<>>
    /\ \E t \in Runners : sleeping[t] # 0 /\ woken[t]

\* Some sleeping ticker is in the notified state.
SomeNotified(sl) == sl.count > Len(sl.wakers)

\* C8 as stated: every State::notify() call that returns while tickers are
\* sleeping (count > 0) leaves at least one sleeping ticker notified, whether
\* it returns after a failed compare-exchange or after its critical section.
C8_AsStated ==
    \A t \in Thr :
        /\ ns[t] = "cas" =>
              LET s1 == State_notify_cas(Cur, t)
              IN  (s1.ns[t] = "none" /\ s1.sleepers.count > 0)
                      => SomeNotified(s1.sleepers)
        /\ ns[t] = "lock" =>
              LET s1 == State_notify_lock(Cur, t)
              IN  s1.sleepers.count > 0 => SomeNotified(s1.sleepers)

\* C8, amended: every State::notify() call that returns while tickers are
\* sleeping leaves at least one sleeping ticker notified, or returns after a
\* failed compare-exchange while another notify() call that won the
\* compare-exchange has not yet entered its critical section; the call that
\* runs the critical section always leaves a sleeping ticker notified.
C8_Amended ==
    \A t \in Thr :
        /\ ns[t] = "cas" =>
              LET s1 == State_notify_cas(Cur, t)
              IN  (s1.ns[t] = "none" /\ s1.sleepers.count > 0)
                      => \/ SomeNotified(s1.sleepers)
                         \/ \E u \in Thr \ {t} : s1.ns[u] = "lock"
        /\ ns[t] = "lock" =>
              LET s1 == State_notify_lock(Cur, t)
              IN  s1.sleepers.count > 0 => SomeNotified(s1.sleepers)

\* A notify() call is about to run its critical section with every sleeping
\* ticker unnotified, while another call is about to fail its compare-exchange.
C8_Witness ==
    \E t \in Thr, u \in Thr :
        /\ ns[t] = "lock" /\ ns[u] = "cas" /\ notified
        /\ sleepers.count > 0 /\ ~SomeNotified(sleepers)

\* n consecutive State::notify() calls by thread c starting in state s.
RECURSIVE notify_times(_, _, _)
notify_times(s, c, n) == IF n = 0 THEN s ELSE State_notify(notify_times(s, c, n - 1), c)

\* The wakers invoked going from state s to state s2.
Invoked(s, s2) == {t \in Thr : s2.woken[t] /\ ~s.woken[t]}

\* C9: from any reachable state, K >= 1 consecutive State::notify() calls (no
\* other operation in between) take at most one waker out of the table and
\* invoke at most one waker in total, and every call after the first changes
\* neither Sleepers nor the notified flag.
C9_Idempotent ==
    \A c \in Thr : ns[c] = "none" =>
        \A n \in 1..MaxK :
            LET s1 == notify_times(Cur, c, 1)
                sn == notify_times(Cur, c, n)
            IN  /\ sn.sleepers = s1.sleepers
                /\ sn.notified = s1.notified
                /\ sn.woken = s1.woken
                /\ Len(sleepers.wakers) - Len(sn.sleepers.wakers) <= 1
                /\ Cardinality(Invoked(Cur, sn)) <= 1

\* Two tickers sleep unnotified and no notification is pending: the first of
\* the consecutive calls takes a waker, the later ones must not.
C9_Witness ==
    /\ NoSleepersOp /\ ~notified
    /\ Len(sleepers.wakers) >= 2
    /\ \A t \in Runners : Parked(t)

\* ---- the active set -------------------------------------------------------------
Entries(k) == {i \in Task : active[i] = k}

\* C5: while the executor is alive, the active set holds exactly one entry
\* for every spawned task whose future has neither completed nor been dropped
\* by a cancellation, and no entry for a task whose future is gone; this
\* includes a task whose handle is dropped before the task was ever polled.
C5_OneEntry ==
    (~Dropping /\ ~dropped) =>
        \A k \in Task :
            Cardinality(Entries(k)) =
                IF task[k].st \in {"scheduled", "idle"} THEN 1 ELSE 0

\* C6: when try_tick() has just returned false, no thread is inside spawn or
\* another call, no runnable is in a Runner's local queue or in a worker's
\* hands, and no task is pending on a waker or finished with its entry left
\* behind, the executor is empty.
C6_DrainLaw ==
    ( /\ drained
      /\ \A t \in Thr : pc[t] \in {"idle", "outer", "parked"} /\ ns[t] = "none"
      /\ \A t \in Thr : local[t] = <<>> /\ held[t] = None
      /\ \A k \in Task : task[k].st # "idle"
      /\ \A i \in Task : active[i] # None => task[active[i]].st = "scheduled" )
    => is_empty(Cur)

\* C10: Drop for Executor invokes the waker of each entry registered when it
\* began exactly once and of no other task, has released the active-set lock
\* and emptied the active set when it starts draining the global queue, and
\* leaves the active set and the global queue empty.
C10_Drop ==
    /\ \A k \in Task : dwakes[k] <= 1 /\ (k \notin dreg => dwakes[k] = 0)
    /\ \A t \in Thr : pc[t] = "drop_wake" =>
          /\ active_lock = t
          /\ \A k \in dreg : dwakes[k] = IF Entries(k) = {} THEN 1 ELSE 0
    /\ \A t \in Thr : pc[t] = "drop_drain" =>
          /\ active_lock = None
          /\ is_empty(Cur)
          /\ \A k \in dreg : dwakes[k] = 1
    /\ dropped =>
          /\ is_empty(Cur) /\ queue = <<>> /\ active_lock = None
          /\ \A k \in dreg : dwakes[k] = 1

\* The executor was dropped with FewTasks pending tasks registered: each was
\* woken, its runnable is on the global queue, and dropping it runs the
\* completion guard, which takes the active-set lock.
C10_Witness ==
    \E t \in Thr :
        /\ pc[t] = "drop_drain" /\ ns[t] = "none"
        /\ Cardinality(dreg) = FewTasks
        /\ Len(queue) = FewTasks
        /\ \A k \in dreg : task[k].polled /\ dwakes[k] = 1

C13_GuardTolerant == ~panicked

\* The ids of the tickers that are sleeping.
LiveIds == {sleeping[t] : t \in {u \in Thr : sleeping[u] # 0}}

\* C14: sleeper ids are nonzero and unique while live.  No two sleeping
\* tickers share an id, every id in the wakers table or on the free list is
\* nonzero, an id is in the wakers table at most once and belongs to a
\* sleeping ticker, no free id is live, and the id Sleepers::insert would
\* return is neither 0 nor the id of a sleeping ticker.
C14_SleeperIds ==
    /\ \A t, u \in Thr :
          (t # u /\ sleeping[t] # 0 /\ sleeping[u] # 0)
              => sleeping[t] # sleeping[u]
    /\ \A i \in 1..Len(sleepers.wakers) :
          /\ sleepers.wakers[i][1] # 0
          /\ sleepers.wakers[i][1] \in LiveIds
          /\ \A j \in 1..Len(sleepers.wakers) :
                i # j => sleepers.wakers[i][1] # sleepers.wakers[j][1]
    /\ \A i \in 1..Len(sleepers.free_ids) :
          sleepers.free_ids[i] # 0 /\ sleepers.free_ids[i] \notin LiveIds
    /\ \A t \in Thr :
          LET r == Sleepers_insert(sleepers, t)
          IN  r.ret # 0 /\ r.ret \notin LiveIds

\* Both runners sleep, each with the id the other one had first: ids were
\* freed and handed out again.
C14_Witness ==
    /\ sleeping[1] = Cardinality(Runners) /\ sleeping[Cardinality(Runners)] = 1
    /\ Len(sleepers.wakers) = Cardinality(Runners)

\* The ticker of thread t is registered in Sleepers, unnotified, with t's waker.
Registered(s, t) ==
    /\ s.sleeping[t] # 0
    /\ \E i \in 1..Len(s.sleepers.wakers) :
          s.sleepers.wakers[i] = <<s.sleeping[t], t>>

\* C15: no wake-up is lost on the sleep path.  A worker whose runnable_with
\* returned Pending and whose waker was not invoked since is registered in
\* Sleepers, unnotified, with its current waker.  The None arm returns Pending
\* exactly when the ticker was already registered and unnotified before the
\* search that just failed; otherwise it registers the ticker (mirroring the
\* flag) and searches again.  So when the global queue holds a runnable and
\* no notify() is in flight, the worker is not parked unwoken: the push was
\* either seen by the re-search or its notify() invoked the sleeper's waker.
C15_NoLostWake ==
    /\ \A t \in Thr :
          (mode[t] = "run" /\ pc[t] = "parked" /\ ~woken[t])
              => Registered(Cur, t)
    /\ \A t \in Thr : pc[t] = "sleep" =>
          LET r == runnable_with_none(Cur, t)
          IN  /\ Registered(r, t)
              /\ r.pc[t] = IF Registered(Cur, t) THEN "parked" ELSE "search"
              /\ ~Registered(Cur, t) => r.notified = is_notified(r.sleepers)
    /\ (queue # <<>> /\ \A u \in Thr : ns[u] = "none")
          => \A t \in Thr : ~Parked(t)

\* The worker registered as a sleeper, searched again and found a runnable
\* that was pushed meanwhile: it holds the runnable while still registered,
\* unnotified, its waker never invoked.
C15_Witness ==
    /\ pc[1] = "found" /\ held[1] # None
    /\ Registered(Cur, 1) /\ ~woken[1]

\* ---- the schedule callback and the TLS hand-off ----------------------------------
\* C16: the schedule callback places the runnable in exactly one place.  It
\* goes to the thread's TLS pending list if and only if the slot is populated,
\* not borrowed, and stores the State the callback captured; then the global
\* queue is untouched and notify() is not called.  Otherwise the runnable is
\* pushed to the global queue, the TLS slot is untouched, and notify() is
\* called on the state that already holds the pushed runnable.
C16_ScheduleRoutes ==
    \A t \in Thr : \A k \in Task :
        (ns[t] = "none" /\ task[k].st = "idle") =>
            LET r == schedule(Cur, t, k)
                handoff == /\ tls[t].set /\ ~tls[t].borrowed
                           /\ tls[t].state = "this"
                inq == \E i \in 1..Len(r.queue) : r.queue[i] = k
                intls == \E i \in 1..Len(r.tls[t].pending) :
                             r.tls[t].pending[i] = k
            IN  /\ inq # intls
                /\ handoff <=> intls
                /\ handoff =>
                      /\ r.tls[t].pending = Append(tls[t].pending, k)
                      /\ r.queue = queue /\ r.ns[t] = "none"
                /\ ~handoff =>
                      /\ r.queue = Append(queue, k)
                      /\ r = call_notify([Cur EXCEPT !.queue = Append(queue, k)], t)

\* A waker was invoked on a thread whose TLS slot holds another executor's
\* State: the runnable is in the global queue and notify() has been called.
C16_Witness ==
    \E t \in Thr :
        /\ tls[t].set /\ tls[t].state = "other" /\ ~tls[t].borrowed
        /\ ns[t] = "cas" /\ queue # <<>> /\ tls[t].pending = <<>>

\* C17: a successful TLS hand-off leaves the owning ticker woken: its sleeping
\* id is 0 and it has no entry in the wakers list; if it was sleeping, the
\* sleeper count went down by one and the notified flag was mirrored from
\* is_notified(), and if it was sleeping unnotified its waker was invoked;
\* if it was awake, Sleepers and the flag are untouched.  Hence a Runner whose
\* ticker is the one in its thread's TLS slot is never registered in
\* Sleepers while that slot's pending list is non-empty.
C17_HandoffWakes ==
    /\ \A t \in Thr : \A k \in Task :
          LET r == try_push_tls(Cur, t, k)
          IN  r.ok =>
                /\ r.s.tls[t].pending = Append(tls[t].pending, k)
                /\ r.s.sleeping[t] = 0
                /\ \A i \in 1..Len(r.s.sleepers.wakers) :
                      /\ r.s.sleepers.wakers[i][2] # t
                      /\ r.s.sleepers.wakers[i][1] # sleeping[t]
                /\ sleeping[t] # 0 =>
                      /\ r.s.sleepers.count = sleepers.count - 1
                      /\ r.s.notified = is_notified(r.s.sleepers)
                      /\ Registered(Cur, t) => r.s.woken[t]
                /\ sleeping[t] = 0 =>
                      /\ r.s.sleepers = sleepers /\ r.s.notified = notified
                      /\ r.s.woken = woken
    /\ \A t \in Thr :
          (mode[t] = "run" /\ tls[t].set /\ tls[t].state = "this"
              /\ tls[t].pending # <<>>) => sleeping[t] = 0

\* A runner spawned from the future passed to run() while its ticker was
\* sleeping: the runnable is in its TLS pending list, the ticker's id went
\* to the free list and its waker has been invoked.
C17_Witness ==
    \E t \in Runners :
        /\ pc[t] = "spawn_ret" /\ tls[t].pending # <<>>
        /\ sleeping[t] = 0 /\ woken[t] /\ sleepers.free_ids # <<>>

\* ---- Drop for Ticker, the search baton and searching_count -----------------------
\* C18: a Ticker dropped while sleeping (at the end of run(), or when the
\* future of tick() is dropped) is removed from Sleepers: its sleeping id is
\* 0, the count went down by one, its id is no longer in the wakers list, and
\* the notified flag equals is_notified().  It calls notify() exactly when it
\* had been notified (its waker was already taken), and that call, run to
\* its end, leaves some remaining sleeper notified if there is one.  A ticker
\* dropped while awake changes nothing.
C18_DropPassesOn ==
    \A t \in Thr :
        ( /\ ns[t] = "none"
          /\ pc[t] = "exit_ticker" \/ (pc[t] = "parked" /\ mode[t] = "tick") )
        => LET r == Ticker_drop(Cur, t)
           IN  /\ sleeping[t] = 0 => r = Cur
               /\ sleeping[t] # 0 =>
                     /\ r.sleeping[t] = 0
                     /\ r.sleepers.count = sleepers.count - 1
                     /\ \A i \in 1..Len(r.sleepers.wakers) :
                           r.sleepers.wakers[i][1] # sleeping[t]
                     /\ r.notified = is_notified(r.sleepers)
                     /\ (r.ns[t] = "cas") <=> ~Registered(Cur, t)
                     /\ ~Registered(Cur, t) =>
                           LET n == State_notify(r, t)
                           IN  n.sleepers.count > 0 => SomeNotified(n.sleepers)

\* A ticker is about to be dropped after it was notified (its waker is gone
\* from the table) while another ticker sleeps unnotified.
C18_Witness ==
    \E t \in Thr : \E u \in Thr \ {t} :
        /\ ns[t] = "none"
        /\ pc[t] = "exit_ticker" \/ (pc[t] = "parked" /\ mode[t] = "tick")
        /\ sleeping[t] # 0 /\ ~Registered(Cur, t)
        /\ Registered(Cur, u)

\* C19: the search baton.  When runnable_with has obtained a runnable, the
\* ticker is woken before the runnable is returned (sleeping id 0, no entry in
\* the wakers list, no waker invoked by that), and notify() is called exactly
\* when searching_count is 0 at that moment; that notify(), run to its end,
\* takes at most one waker out of the table and invokes at most one waker, so
\* obtaining one runnable wakes at most one sleeping peer.
C19_SearchBaton ==
    \A t \in Thr : (pc[t] = "found" /\ ns[t] = "none") =>
        LET r == runnable_with_some(Cur, t)
            n == State_notify(r, t)
        IN  /\ r.sleeping[t] = 0
            /\ \A i \in 1..Len(r.sleepers.wakers) :
                  r.sleepers.wakers[i][2] # t
            /\ r.woken = woken /\ r.held = held /\ r.queue = queue
            /\ (r.ns[t] = "cas") <=> (searching_count = 0)
            /\ searching_count = 0 =>
                  /\ Len(r.sleepers.wakers) - Len(n.sleepers.wakers) <= 1
                  /\ Cardinality(Invoked(r, n)) <= 1
                  /\ t \notin Invoked(r, n)

\* A ticker that registered as a sleeper has found a runnable while nobody
\* is searching and its peer is parked: the baton goes to the peer.
C19_Witness ==
    \E t \in Thr : \E u \in Thr \ {t} :
        /\ pc[t] = "found" /\ ns[t] = "none" /\ Registered(Cur, t)
        /\ searching_count = 0 /\ Parked(u)

\* C20: searching_count equals the number of Runners that are between the
\* increment after a failed local pop and the exit of that search round.  It
\* is never negative, it is 0 when no Runner is inside a search round, a
\* Runner whose local pop succeeds or fails moves it by 0 or +1, and every way
\* out of the round (runnable from the global queue, from a peer, or none)
\* takes exactly one off.
C20_SearchingCount ==
    /\ searching_count = Cardinality({t \in Thr : pc[t] = "steal"})
    /\ searching_count >= 0
    /\ \A t \in Thr : (pc[t] = "search" /\ mode[t] = "run") =>
          LET r == Runner_search_local(Cur, t)
          IN  r.searching_count =
                  searching_count + (IF r.pc[t] = "steal" THEN 1 ELSE 0)
    /\ \A t \in Thr : pc[t] = "steal" =>
          \A start \in 0..(Cardinality(local_queues) - 1) :
              LET r == Runner_search_steal(Cur, t, start)
              IN  /\ r.searching_count = searching_count - 1
                  /\ r.pc[t] # "steal"

\* Every runner is inside a search round at once, while the global queue
\* holds a runnable one of them will take.
C20_Witness ==
    /\ \A t \in Runners : pc[t] = "steal"
    /\ searching_count = Cardinality(Runners)
    /\ queue # <<>>

\* ---- the yield of the run loop, locks, and the notified state --------------------
\* C21: the future passed to run() is not starved by a saturated queue.  The
\* Runner never runs more than YieldEvery runnables (200 in the source)
\* between two polls of the outer future: when it is about to run one, fewer
\* than YieldEvery were run since the last poll.  And once the outer future
\* is ready (the task it awaits has completed), run() returns, although other
\* tasks keep the queue non-empty for ever.
C21_NotStarved ==
    /\ [](\A t \in Thr : /\ since_poll[t] <= YieldEvery
                         /\ pc[t] = "run" => since_poll[t] < YieldEvery)
    /\ (task[1].st = "done") ~> (pc[1] = "idle" /\ mode[1] = "none")

\* The run loop has just yielded after YieldEvery runnables in a row while
\* runnables are still waiting in the worker's TLS pending list.
C21_Witness ==
    /\ pc[1] = "parked" /\ woken[1] /\ since_poll[1] = YieldEvery
    /\ tls[1].pending # <<>>

\* C22 as stated: the only lock a thread acquires while it holds another one
\* is the sleepers mutex inside notify(), and no lock is held when run() or
\* tick() returns Pending.
C22_AsStated ==
    /\ \A e \in locklog.nested : e[2] = "sleepers" /\ e[3] = "State::notify"
    /\ \A t \in Thr : pc[t] = "parked" => active_lock # t

\* C22, amended: the only lock a thread acquires while it holds another one
\* is the sleepers mutex, taken while the active-set mutex is held, inside
\* notify() or inside the Ticker::wake() of the TLS hand-off; no lock is held
\* when run() or tick() returns Pending.  Every nested acquisition goes from
\* the active-set mutex to the sleepers mutex, so the three locks form no
\* cycle.
C22_Amended ==
    /\ \A e \in locklog.nested :
          /\ e[1] = "active" /\ e[2] = "sleepers"
          /\ e[3] \in {"State::notify", "Ticker::wake"}
    /\ \A t \in Thr : pc[t] = "parked" => active_lock # t

\* Both nested acquisitions have happened: notify() and the hand-off's
\* Ticker::wake() each took the sleepers mutex under the active-set mutex.
C22_Witness ==
    locklog.nested = {<<"active", "sleepers", "State::notify">>,
                      <<"active", "sleepers", "Ticker::wake">>}

\* C23: at most one sleeping ticker is in the notified state.  In every
\* reachable state count - Len(wakers) is 0 or 1, and it still is after
\* Sleepers::notify (which takes a waker only when Len(wakers) = count) and
\* after Sleepers::update by any sleeping ticker (which appends a waker only
\* when the ticker has none in the list).
C23_OneNotified ==
    /\ sleepers.count - Len(sleepers.wakers) \in {0, 1}
    /\ LET n == Sleepers_notify(sleepers).sl
       IN  /\ n.count - Len(n.wakers) \in {0, 1}
           /\ Len(n.wakers) < Len(sleepers.wakers)
                 => Len(sleepers.wakers) = sleepers.count
    /\ \A t \in Thr : sleeping[t] # 0 =>
          LET u == Sleepers_update(sleepers, sleeping[t], t)
          IN  /\ u.sl.count - Len(u.sl.wakers) \in {0, 1}
              /\ u.ret <=> ~Registered(Cur, t)
              /\ Len(u.sl.wakers) =
                    Len(sleepers.wakers) + (IF u.ret THEN 1 ELSE 0)

\* Every runner sleeps, exactly one of them notified, and a notify() call
\* that won the compare-exchange is about to enter Sleepers::notify.
C23_Witness ==
    /\ sleepers.count = Cardinality(Runners)
    /\ Len(sleepers.wakers) = sleepers.count - 1
    /\ \E t \in Thr : ns[t] = "lock"

\* C24 as stated: whenever no thread is inside State::notify (Ticker::sleep,
\* wake and drop are single steps), notified = TRUE implies is_notified(); so
\* a notify() whose compare-exchange fails never does so in a state where
\* tickers are sleeping and none of them is notified.
C24_AsStated ==
    /\ NoSleepersOp => (notified => is_notified(sleepers))
    /\ \A t \in Thr : (ns[t] = "cas" /\ notified) => is_notified(sleepers)

\* C24, amended: whenever no thread is inside State::notify, notified = TRUE
\* implies is_notified(); and a notify() whose compare-exchange fails does so
\* either in a state where is_notified() holds, or while another notify()
\* that won the compare-exchange has not yet run its critical section.
C24_Amended ==
    /\ NoSleepersOp => (notified => is_notified(sleepers))
    /\ \A t \in Thr : (ns[t] = "cas" /\ notified) =>
          \/ is_notified(sleepers)
          \/ \E u \in Thr \ {t} : ns[u] = "lock"

\* A notify() is about to fail its compare-exchange while tickers sleep, none
\* of them notified, because another notify() holds the flag and has not yet
\* taken a waker.
C24_Witness ==
    \E t \in Thr : \E u \in Thr \ {t} :
        /\ ns[t] = "cas" /\ notified /\ ns[u] = "lock"
        /\ sleepers.count > 0 /\ ~is_notified(sleepers)


\* ---- executors sharing a thread ----------------------------------------------
\* The runnables thread t's Runner holds: its local queue and the one it runs.
Holds(t) == {local[t][i] : i \in 1..Len(local[t])} \cup ({held[t]} \ {None})

\* C25, first half: a Runner moves into its local queue only runnables that
\* were scheduled for its own State, so no runnable of another executor is in
\* a local queue, in the hands of a Runner or in the global queue of this one.
C25_OwnRunnables ==
    /\ \A t \in Thr : Foreign \notin Holds(t)
    /\ \A i \in 1..Len(queue) : queue[i] # Foreign

\* C25, second half: a run() that returns clears only a TLS slot that it
\* populated itself, so no step of this executor empties or replaces a slot
\* that holds the State of another executor.
C25_OwnSlot ==
    [][\A t \in Thr : (tls[t].set /\ tls[t].state = "other") =>
                         (tls'[t].set /\ tls'[t].state = "other")]_vars

\* C25: executors sharing a thread stay isolated, also when run() is entered
\* on a thread whose TLS slot is already populated by a run() of another
\* executor: its Runner takes only runnables of its own State, and its return
\* leaves the slot of the other executor alone.
C25_Isolated == []C25_OwnRunnables /\ C25_OwnSlot

=============================================================================
